---- MODULE Spec2Model ----
(***************************************************************************)
(* Model of the recitation page (src/src/pages/RecitePage.tsx), of the     *)
(* speech-recognition hook (src/src/hooks/useSpeechRecognition.ts) and of  *)
(* normalizeArabic (src/unnamed/part_004).                                  *)
(*                                                                         *)
(* A string is a sequence of characters; a character is a TLA+ string      *)
(* naming one UTF-16 code unit.  Lower/upper-case latin letters stand for  *)
(* Arabic base letters; the marks and variant letters that normalizeArabic *)
(* treats specially are named below.  Array positions of the source are    *)
(* 0-based; At(s, i) reads position i of a sequence.                       *)
(***************************************************************************)
EXTENDS Integers, Sequences, FiniteSets, TLC

\* ------------------------------------------------------------------------
\* Characters
\* ------------------------------------------------------------------------
SPACE == " "
TAB == "TAB"                      \* U+0009
FATHA == "FATHA"                  \* U+064E
KASRA == "KASRA"                  \* U+0650
SHADDA == "SHADDA"                \* U+0651
SUKUN == "SUKUN"                  \* U+0652
SUPERSCRIPT_ALEF == "SUPALEF"     \* U+0670
TATWEEL == "TATWEEL"              \* U+0640
ALEF == "A"                       \* U+0627
ALEF_HAMZA_ABOVE == "ALEF_HAMZA_ABOVE"   \* U+0623
ALEF_HAMZA_BELOW == "ALEF_HAMZA_BELOW"   \* U+0625
ALEF_MADDA == "ALEF_MADDA"        \* U+0622
ALEF_WASLA == "ALEF_WASLA"        \* U+0671
TAA_MARBUTA == "TAA_MARBUTA"      \* U+0629
HAA == "h"                        \* U+0647
ALEF_MAKSURA == "ALEF_MAKSURA"    \* U+0649
YAA == "y"                        \* U+064A
WAQF_SALA == "WAQF_SALA"          \* U+06D6
WAQF_JEEM == "WAQF_JEEM"          \* U+06DA

Tashkeel == {FATHA, KASRA, SHADDA, SUKUN, SUPERSCRIPT_ALEF}
HamzaVariants == {ALEF_HAMZA_ABOVE, ALEF_HAMZA_BELOW, ALEF_MADDA, ALEF_WASLA}
WaqfMarks == {WAQF_SALA, WAQF_JEEM}
Whitespace == {SPACE, TAB}

At(s, i) == s[i + 1]

Min2(a, b) == IF a <= b THEN a ELSE b
Max2(a, b) == IF a >= b THEN a ELSE b

\* ------------------------------------------------------------------------
\* String helpers of the JavaScript runtime
\* ------------------------------------------------------------------------
RemoveChars(s, set) == SelectSeq(s, LAMBDA c : c \notin set)

ReplaceChars(s, set, by) == [i \in 1..Len(s) |-> IF s[i] \in set THEN by ELSE s[i]]

\* s.replace(/\s+/g, ' '): every maximal run of whitespace becomes one space
RECURSIVE CollapseSpaces(_)
CollapseSpaces(s) ==
  IF s = <<>> THEN <<>>
  ELSE IF Head(s) \in Whitespace
       THEN IF Len(s) >= 2 /\ s[2] \in Whitespace
            THEN CollapseSpaces(Tail(s))
            ELSE <<SPACE>> \o CollapseSpaces(Tail(s))
       ELSE <<Head(s)>> \o CollapseSpaces(Tail(s))

RECURSIVE TrimStart(_)
TrimStart(s) ==
  IF s # <<>> /\ Head(s) \in Whitespace THEN TrimStart(Tail(s)) ELSE s

RECURSIVE TrimEnd(_)
TrimEnd(s) ==
  IF s # <<>> /\ s[Len(s)] \in Whitespace
  THEN TrimEnd(SubSeq(s, 1, Len(s) - 1))
  ELSE s

Trim(s) == TrimEnd(TrimStart(s))

\* s.split(' '): the pieces between single spaces, empty pieces included
RECURSIVE SplitSpace(_, _)
SplitSpace(s, cur) ==
  IF s = <<>> THEN <<cur>>
  ELSE IF Head(s) = SPACE
       THEN <<cur>> \o SplitSpace(Tail(s), <<>>)
       ELSE SplitSpace(Tail(s), Append(cur, Head(s)))

\* s.split(' ').filter(w => w.length > 0)
SplitWords(s) == SelectSeq(SplitSpace(s, <<>>), LAMBDA w : Len(w) > 0)

\* ------------------------------------------------------------------------
\* normalizeArabic
\* ------------------------------------------------------------------------
\* Variant: the whitespace is collapsed and trimmed before the marks are removed
normalizeArabic_CollapsesFirst(text) ==
  LET n0 == Trim(CollapseSpaces(text))
      n1 == RemoveChars(n0, Tashkeel)
      n2 == RemoveChars(n1, {TATWEEL})
      n3 == ReplaceChars(n2, HamzaVariants, ALEF)
      n4 == ReplaceChars(n3, {TAA_MARBUTA}, HAA)
      n5 == ReplaceChars(n4, {ALEF_MAKSURA}, YAA)
  IN  RemoveChars(n5, WaqfMarks)

normalizeArabic(text) ==
  LET n1 == RemoveChars(text, Tashkeel)
      n2 == RemoveChars(n1, {TATWEEL})
      n3 == ReplaceChars(n2, HamzaVariants, ALEF)
      n4 == ReplaceChars(n3, {TAA_MARBUTA}, HAA)
      n5 == ReplaceChars(n4, {ALEF_MAKSURA}, YAA)
      n6 == RemoveChars(n5, WaqfMarks)
  IN  Trim(CollapseSpaces(n6))

\* ------------------------------------------------------------------------
\* levenshteinDistance / calculateSimilarity
\* ------------------------------------------------------------------------
\* Row i of the dp table, built cell by cell from row i-1 (prev).
RECURSIVE LevRow(_, _, _, _, _)
LevRow(str1, str2, i, prev, row) ==
  LET j == Len(row)
  IN  IF j > Len(str2) THEN row
      ELSE LET cell == IF str1[i] = str2[j]
                       THEN prev[j]
                       ELSE 1 + Min2(prev[j + 1], Min2(row[j], prev[j]))
           IN  LevRow(str1, str2, i, prev, Append(row, cell))

RECURSIVE LevRows(_, _, _, _)
LevRows(str1, str2, i, prev) ==
  IF i > Len(str1) THEN prev[Len(str2) + 1]
  ELSE LevRows(str1, str2, i + 1, LevRow(str1, str2, i, prev, <<i>>))

levenshteinDistance(str1, str2) ==
  IF Len(str1) = 0 THEN Len(str2)
  ELSE IF Len(str2) = 0 THEN Len(str1)
  ELSE LevRows(str1, str2, 1, [j \in 1..(Len(str2) + 1) |-> j - 1])

\* Variant: the shorter length is taken as maxLength
calculateSimilarity_MinLength(str1, str2) ==
  IF str1 = str2 THEN <<100, 1>>
  ELSE IF Len(str1) = 0 \/ Len(str2) = 0 THEN <<0, 1>>
  ELSE LET distance == levenshteinDistance(str1, str2)
           maxLength == Min2(Len(str1), Len(str2))
       IN  <<(maxLength - distance) * 100, maxLength>>

\* The score is the rational ((maxLength - distance) / maxLength) * 100, kept
\* exact as <<numerator, denominator>>.
calculateSimilarity(str1, str2) ==
  IF str1 = str2 THEN <<100, 1>>
  ELSE IF Len(str1) = 0 \/ Len(str2) = 0 THEN <<0, 1>>
  ELSE LET distance == levenshteinDistance(str1, str2)
           maxLength == Max2(Len(str1), Len(str2))
       IN  <<(maxLength - distance) * 100, maxLength>>

\* score >= t and score < t for an integer threshold t; a > b for two scores
SimGE(sim, t) == sim[1] >= t * sim[2]
SimLT(sim, t) == ~SimGE(sim, t)
SimGT(a, b) == a[1] * b[2] > b[1] * a[2]

\* ------------------------------------------------------------------------
\* Reference passages and recognizer vocabulary
\* ------------------------------------------------------------------------
\* Surface words as the text provider delivers them (with marks and variant
\* letters), and the words the recognizer may deliver.
W_bsm == <<"b", KASRA, "s", SUKUN, "m", KASRA>>
W_Allh == <<ALEF_WASLA, "l", "l", SHADDA, FATHA, "h", KASRA>>
W_mlk == <<"m", FATHA, "l", KASRA, "k", KASRA>>
W_ywm == <<"y", FATHA, "w", SUKUN, "m", KASRA>>
W_dyn == <<"d", KASRA, "y", "n", KASRA>>
W_nEbd == <<"n", FATHA, "E", SUKUN, "b", "d">>
W_AlrH == <<ALEF_WASLA, "l", "r", SHADDA, "H">>
W_mAlk == <<"m", SUPERSCRIPT_ALEF, ALEF, "l", KASRA, "k">>
W_AyAk == <<ALEF_HAMZA_BELOW, "y", SHADDA, ALEF, "k">>

\* What the recognizer delivers: unvowelled text, possibly with variant letters
H_bsm == <<"b", "s", "m">>
H_Allh == <<ALEF, "l", "l", TAA_MARBUTA>>
H_xyz == <<"x", "y", "z">>
H_mlk == <<"m", "l", "k">>
H_ywm == <<"y", "w", "m">>
H_dyn == <<"d", "y", "n">>
H_nEbd == <<"n", "E", "b", "d">>
H_mAlk == <<"m", ALEF, "l", "k">>
H_AyAk == <<ALEF_HAMZA_ABOVE, ALEF_MAKSURA, ALEF, "k">>

\* Join(ws): the words separated by single spaces
RECURSIVE Join(_)
Join(ws) ==
  IF ws = <<>> THEN <<>>
  ELSE IF Len(ws) = 1 THEN ws[1]
  ELSE ws[1] \o <<SPACE>> \o Join(Tail(ws))

\* A surah is its list of ayah texts (SurahDetail.ayahs[*].text).
SurahTwo == << Join(<<W_bsm, W_Allh>>) >>
SurahFour == << Join(<<W_mlk, W_ywm, W_dyn, W_nEbd>>) >>
SurahThree == << W_AlrH, Join(<<W_mAlk, W_ywm>>), Join(<<W_nEbd, W_AyAk>>) >>
\* Two ayahs in which a pause mark stands as a word of its own
SurahMarks == << Join(<<W_bsm, <<WAQF_JEEM>>>>), Join(<<W_Allh, <<WAQF_SALA>>, W_mlk>>) >>
\* Three ayahs, the last one ending in a pause mark that stands alone
SurahJump == << W_AlrH, Join(<<W_mAlk, W_ywm>>), Join(<<W_nEbd, <<WAQF_JEEM>>>>) >>
\* One ayah of eight words, longer than the lookahead window
SurahLong == << Join(<<W_bsm, W_Allh, W_ywm, W_dyn, W_AlrH, W_mlk, W_nEbd, W_AyAk>>) >>
\* Three ayahs, the last one a single word
SurahEnd == << W_AlrH, Join(<<W_mAlk, W_ywm>>), W_nEbd >>
\* Two ayahs of one and two words, short enough to be recited in full
SurahPair == << W_bsm, Join(<<W_Allh, W_mlk>>) >>

Surahs == {SurahTwo, SurahFour, SurahThree, SurahMarks, SurahJump, SurahLong, SurahEnd}
NoSurah == <<>>

\* The final results the recognizer may deliver while a surah is recited
HypVocab(s) ==
  IF s = SurahTwo THEN {H_bsm, H_Allh, H_xyz}
  ELSE IF s = SurahFour THEN {H_mlk, H_ywm, H_dyn, H_nEbd}
  ELSE IF s = SurahMarks THEN {H_bsm, H_Allh, H_mlk}
  ELSE IF s = SurahJump THEN {H_nEbd, H_mAlk}
  ELSE IF s = SurahLong THEN {H_mlk, H_nEbd, H_AyAk}
  ELSE IF s = SurahEnd THEN {H_nEbd, H_ywm}
  ELSE IF s = SurahPair THEN {H_bsm, H_Allh, H_mlk}
  ELSE {H_mAlk, H_ywm, H_AyAk, H_nEbd}

\* ------------------------------------------------------------------------
\* The reference index (word statuses) built when the surah loads
\* ------------------------------------------------------------------------
\* The records of one ayah: ayahWords.forEach((word, wordIdx) => ...)
AyahStatuses(text, ayahIdx) ==
  LET ayahWords == SplitWords(text)
      normalizedAyah == normalizeArabic(text)
      normalizedWords == SplitWords(normalizedAyah)
  IN  [k \in 1..Len(ayahWords) |->
         [word |-> ayahWords[k],
          normalized |-> IF k <= Len(normalizedWords) THEN normalizedWords[k] ELSE <<>>,
          status |-> "pending",
          ayahIndex |-> ayahIdx,
          isLastWord |-> (k - 1 = Len(ayahWords) - 1)]]

RECURSIVE BuildFrom(_, _)
BuildFrom(s, ayahIdx) ==
  IF ayahIdx >= Len(s) THEN <<>>
  ELSE AyahStatuses(At(s, ayahIdx), ayahIdx) \o BuildFrom(s, ayahIdx + 1)

BuildStatuses(s) == BuildFrom(s, 0)

\* ------------------------------------------------------------------------
\* The incremental matching effect: thresholds
\* ------------------------------------------------------------------------
BASE_THRESHOLD_AYAH_START == 60
BASE_THRESHOLD_IN_AYAH == 40
SHORT_WORD_MAX_LEN == 2
SHORT_WORD_BOOST == 20
CURRENT_MATCH_THRESHOLD_CAP == 85
SKIP_DETECT_THRESHOLD_SAME_AYAH == 85
SKIP_DETECT_THRESHOLD_NEXT_AYAH == 92
SKIP_CONFIRM_THRESHOLD_SAME_AYAH == 70
SKIP_CONFIRM_THRESHOLD_NEXT_AYAH == 85
START_CONFIRM_THRESHOLD == 45
LOOKAHEAD_WINDOW == 6
MIN_LEN_SAME_AYAH == 3
MIN_LEN_CROSS_AYAH == 4
CONFIRM_BOOST == 10
CONFIRM_CAP == 95
LONG_JUMP_MAX_AYAHS_AHEAD == 12
LONG_JUMP_DETECT_THRESHOLD == 95
LONG_JUMP_CONFIRM_THRESHOLD == 60
LONG_JUMP_MIN_LEN == 4

\* ------------------------------------------------------------------------
\* The incremental matching effect: one new word
\* ------------------------------------------------------------------------
HasAt(seq, i) == i >= 0 /\ i < Len(seq)

\* wordStatuses[i]?.normalized is a non-empty string (truthy in JavaScript)
HasNormalized(ws, i) == HasAt(ws, i) /\ Len(At(ws, i).normalized) > 0

SetStatus(st, i, status) == [st EXCEPT ![i + 1].status = status]

isAyahStart(ws, idx) == idx = 0 \/ At(ws, idx - 1).isLastWord

CurrentMatchThreshold(ws, idx) ==
  LET baseThreshold == IF isAyahStart(ws, idx) THEN BASE_THRESHOLD_AYAH_START
                       ELSE BASE_THRESHOLD_IN_AYAH
      shortWordBoost == IF Len(At(ws, idx).normalized) <= SHORT_WORD_MAX_LEN
                        THEN SHORT_WORD_BOOST ELSE 0
  IN  Min2(CURRENT_MATCH_THRESHOLD_CAP, baseThreshold + shortWordBoost)

\* Variant: the window reaches one position further (i <= newCurrentIndex + 6)
RECURSIVE FindAhead_WiderWindow(_, _, _, _)
FindAhead_WiderWindow(ws, idx, userWord, i) ==
  IF i >= Min2(idx + LOOKAHEAD_WINDOW + 1, Len(ws)) THEN -1
  ELSE LET currentRef == At(ws, idx)
           currentAyah == currentRef.ayahIndex
           sameAyah == At(ws, i).ayahIndex = currentAyah
           isNextAyahFirstWord == /\ currentRef.isLastWord
                                  /\ i = idx + 1
                                  /\ At(ws, i).ayahIndex = currentAyah + 1
           candidate == At(ws, i)
           minLen == IF isNextAyahFirstWord THEN MIN_LEN_CROSS_AYAH ELSE MIN_LEN_SAME_AYAH
           detectThreshold == IF isNextAyahFirstWord THEN SKIP_DETECT_THRESHOLD_NEXT_AYAH
                              ELSE SKIP_DETECT_THRESHOLD_SAME_AYAH
       IN  IF ~sameAyah /\ ~isNextAyahFirstWord THEN -1
           ELSE IF Len(candidate.normalized) < minLen
                THEN FindAhead_WiderWindow(ws, idx, userWord, i + 1)
           ELSE IF SimGE(calculateSimilarity(userWord, candidate.normalized),
                         detectThreshold)
                THEN i
           ELSE FindAhead_WiderWindow(ws, idx, userWord, i + 1)

\* The bounded lookahead search: the first candidate i in the window whose
\* similarity to userWord clears the detection threshold, or -1.
RECURSIVE FindAhead(_, _, _, _)
FindAhead(ws, idx, userWord, i) ==
  IF i >= Min2(idx + LOOKAHEAD_WINDOW, Len(ws)) THEN -1
  ELSE LET currentRef == At(ws, idx)
           currentAyah == currentRef.ayahIndex
           sameAyah == At(ws, i).ayahIndex = currentAyah
           isNextAyahFirstWord == /\ currentRef.isLastWord
                                  /\ i = idx + 1
                                  /\ At(ws, i).ayahIndex = currentAyah + 1
           candidate == At(ws, i)
           isCrossAyah == isNextAyahFirstWord
           minLen == IF isCrossAyah THEN MIN_LEN_CROSS_AYAH ELSE MIN_LEN_SAME_AYAH
           detectThreshold == IF isCrossAyah THEN SKIP_DETECT_THRESHOLD_NEXT_AYAH
                              ELSE SKIP_DETECT_THRESHOLD_SAME_AYAH
       IN  IF ~sameAyah /\ ~isNextAyahFirstWord THEN -1
           ELSE IF Len(candidate.normalized) < minLen
                THEN FindAhead(ws, idx, userWord, i + 1)
           ELSE IF SimGE(calculateSimilarity(userWord, candidate.normalized),
                         detectThreshold)
                THEN i
           ELSE FindAhead(ws, idx, userWord, i + 1)

\* The confirmation threshold of a lookahead candidate foundAhead
RequiredConfirm(ws, idx, foundAhead) ==
  LET currentRef == At(ws, idx)
      isCrossAyahJump == /\ currentRef.isLastWord
                         /\ At(ws, foundAhead).ayahIndex = currentRef.ayahIndex + 1
      baseConfirmThreshold == IF isCrossAyahJump THEN SKIP_CONFIRM_THRESHOLD_NEXT_AYAH
                              ELSE SKIP_CONFIRM_THRESHOLD_SAME_AYAH
      nextLen == IF HasAt(ws, foundAhead + 1)
                 THEN Len(At(ws, foundAhead + 1).normalized) ELSE 0
      confirmBoost == IF nextLen <= SHORT_WORD_MAX_LEN THEN CONFIRM_BOOST ELSE 0
  IN  Min2(CONFIRM_CAP, baseConfirmThreshold + confirmBoost)

\* Variant: the marking loop starts one position late (i = newCurrentIndex + 1)
MarkSkippedAhead_StartsLate(ws, st, idx, foundAhead, i) ==
  [k \in 1..Len(st) |->
     IF k - 1 > idx /\ k - 1 < foundAhead
     THEN [st[k] EXCEPT !.status = "incorrect"] ELSE st[k]]

\* The loop that marks the words passed over by a lookahead skip
RECURSIVE MarkSkippedAhead(_, _, _, _, _)
MarkSkippedAhead(ws, st, idx, foundAhead, i) ==
  IF i >= foundAhead THEN st
  ELSE LET currentRef == At(ws, idx)
           sameAyah == At(ws, i).ayahIndex = currentRef.ayahIndex
           isNextAyahFirstWord == /\ currentRef.isLastWord
                                  /\ i = idx + 1
                                  /\ At(ws, i).ayahIndex = currentRef.ayahIndex + 1
       IN  IF ~sameAyah /\ ~isNextAyahFirstWord THEN st
           ELSE MarkSkippedAhead(ws, SetStatus(st, i, "incorrect"), idx, foundAhead, i + 1)

\* The loop that marks the words passed over by a long jump
RECURSIVE MarkSkippedJump(_, _, _)
MarkSkippedJump(st, i, bestIdx) ==
  IF i >= bestIdx THEN st
  ELSE MarkSkippedJump(SetStatus(st, i, "incorrect"), i + 1, bestIdx)

\* Variant: the search also leaves out the ayah two ahead
\* (ayahIdx <= currentAyah + 2)
RECURSIVE BestJump_SkipsTwoAhead(_, _, _, _, _)
BestJump_SkipsTwoAhead(ws, idx, userWord, i, best) ==
  IF i >= Len(ws) THEN best
  ELSE LET currentAyah == At(ws, idx).ayahIndex
           ayahIdx == At(ws, i).ayahIndex
           isStart == i = 0 \/ At(ws, i - 1).isLastWord
           cand == At(ws, i)
           sim == calculateSimilarity(userWord, cand.normalized)
       IN  IF ayahIdx <= currentAyah + 2
           THEN BestJump_SkipsTwoAhead(ws, idx, userWord, i + 1, best)
           ELSE IF ayahIdx > currentAyah + LONG_JUMP_MAX_AYAHS_AHEAD THEN best
           ELSE IF ~isStart THEN BestJump_SkipsTwoAhead(ws, idx, userWord, i + 1, best)
           ELSE IF Len(cand.normalized) < LONG_JUMP_MIN_LEN
                THEN BestJump_SkipsTwoAhead(ws, idx, userWord, i + 1, best)
           ELSE IF SimGT(sim, best[2])
                THEN BestJump_SkipsTwoAhead(ws, idx, userWord, i + 1, <<i, sim>>)
           ELSE BestJump_SkipsTwoAhead(ws, idx, userWord, i + 1, best)

\* The long-jump search: <<bestIdx, bestSim>> over the first words of the
\* ayahs 2..LONG_JUMP_MAX_AYAHS_AHEAD ahead of the current one.
RECURSIVE BestJump(_, _, _, _, _)
BestJump(ws, idx, userWord, i, best) ==
  IF i >= Len(ws) THEN best
  ELSE LET currentAyah == At(ws, idx).ayahIndex
           ayahIdx == At(ws, i).ayahIndex
           isStart == i = 0 \/ At(ws, i - 1).isLastWord
           cand == At(ws, i)
           sim == calculateSimilarity(userWord, cand.normalized)
       IN  IF ayahIdx <= currentAyah + 1 THEN BestJump(ws, idx, userWord, i + 1, best)
           ELSE IF ayahIdx > currentAyah + LONG_JUMP_MAX_AYAHS_AHEAD THEN best
           ELSE IF ~isStart THEN BestJump(ws, idx, userWord, i + 1, best)
           ELSE IF Len(cand.normalized) < LONG_JUMP_MIN_LEN
                THEN BestJump(ws, idx, userWord, i + 1, best)
           ELSE IF SimGT(sim, best[2])
                THEN BestJump(ws, idx, userWord, i + 1, <<i, sim>>)
           ELSE BestJump(ws, idx, userWord, i + 1, best)

\* Variant: at the start of an ayah the match is committed without waiting
\* for a next word (the break is missing)
StepAtCursor_NoDefer(ws, newWords, wIdx, idx, st) ==
  LET hasNextUserWord == HasAt(newWords, wIdx + 1)
      nextExpectedStart == HasNormalized(ws, idx + 1)
      nextSimStart == calculateSimilarity(At(newWords, wIdx + 1),
                                          At(ws, idx + 1).normalized)
  IN  IF /\ isAyahStart(ws, idx)
         /\ nextExpectedStart
         /\ hasNextUserWord
         /\ SimLT(nextSimStart, START_CONFIRM_THRESHOLD)
      THEN [kind |-> "unconfirmed", idx |-> idx, st |-> st, target |-> idx]
      ELSE [kind |-> "match", idx |-> idx + 1,
            st |-> SetStatus(st, idx, "correct"), target |-> idx]

\* Variant: at the start of an ayah the match is committed whatever the next
\* word is
StepAtCursor_NoConfirm(ws, newWords, wIdx, idx, st) ==
  IF /\ isAyahStart(ws, idx)
     /\ HasNormalized(ws, idx + 1)
     /\ ~HasAt(newWords, wIdx + 1)
  THEN [kind |-> "defer_start", idx |-> idx, st |-> st, target |-> idx]
  ELSE [kind |-> "match", idx |-> idx + 1,
        st |-> SetStatus(st, idx, "correct"), target |-> idx]

\* Step 1 of the loop body: the word matches the reference word at the cursor
StepAtCursor(ws, newWords, wIdx, idx, st) ==
  LET hasNextUserWord == HasAt(newWords, wIdx + 1)
      nextExpectedStart == HasNormalized(ws, idx + 1)
      nextSimStart == calculateSimilarity(At(newWords, wIdx + 1),
                                          At(ws, idx + 1).normalized)
      commit == [kind |-> "match", idx |-> idx + 1,
                 st |-> SetStatus(st, idx, "correct"), target |-> idx]
  IN  IF isAyahStart(ws, idx)
      THEN IF nextExpectedStart /\ ~hasNextUserWord
           THEN [kind |-> "defer_start", idx |-> idx, st |-> st, target |-> idx]
           ELSE IF /\ nextExpectedStart
                   /\ hasNextUserWord
                   /\ SimLT(nextSimStart, START_CONFIRM_THRESHOLD)
                THEN [kind |-> "unconfirmed", idx |-> idx, st |-> st, target |-> idx]
                ELSE commit
      ELSE commit

\* Variant: a lookahead candidate is committed as soon as a next word exists
StepLookahead_NoConfirm(ws, newWords, wIdx, idx, st, foundAhead) ==
  IF ~HasAt(newWords, wIdx + 1)
  THEN [kind |-> "defer_skip", idx |-> idx, st |-> st, target |-> foundAhead]
  ELSE [kind |-> "skip", idx |-> foundAhead + 1,
        st |-> SetStatus(MarkSkippedAhead(ws, st, idx, foundAhead, idx),
                         foundAhead, "correct"),
        target |-> foundAhead]

\* Variant: a candidate with no following reference word is committed, as in
\* step 1 (!nextExpected || nextSimilarity >= requiredConfirm)
StepLookahead_CommitsAtEnd(ws, newWords, wIdx, idx, st, foundAhead) ==
  LET hasNextUserWord == HasAt(newWords, wIdx + 1)
      nextExpected == HasNormalized(ws, foundAhead + 1)
      nextSimilarity == IF nextExpected
                        THEN calculateSimilarity(At(newWords, wIdx + 1),
                                                 At(ws, foundAhead + 1).normalized)
                        ELSE <<0, 1>>
      requiredConfirm == RequiredConfirm(ws, idx, foundAhead)
  IN  IF ~hasNextUserWord
      THEN [kind |-> "defer_skip", idx |-> idx, st |-> st, target |-> foundAhead]
      ELSE IF ~nextExpected \/ SimGE(nextSimilarity, requiredConfirm)
           THEN [kind |-> "skip", idx |-> foundAhead + 1,
                 st |-> SetStatus(MarkSkippedAhead(ws, st, idx, foundAhead, idx),
                                  foundAhead, "correct"),
                 target |-> foundAhead]
           ELSE [kind |-> "noise", idx |-> idx, st |-> st, target |-> foundAhead]

\* Step 2: a lookahead candidate foundAhead was detected
StepLookahead(ws, newWords, wIdx, idx, st, foundAhead) ==
  LET hasNextUserWord == HasAt(newWords, wIdx + 1)
      nextExpected == HasNormalized(ws, foundAhead + 1)
      nextSimilarity == IF nextExpected
                        THEN calculateSimilarity(At(newWords, wIdx + 1),
                                                 At(ws, foundAhead + 1).normalized)
                        ELSE <<0, 1>>
      requiredConfirm == RequiredConfirm(ws, idx, foundAhead)
  IN  IF ~hasNextUserWord
      THEN [kind |-> "defer_skip", idx |-> idx, st |-> st, target |-> foundAhead]
      ELSE IF nextExpected /\ SimGE(nextSimilarity, requiredConfirm)
           THEN [kind |-> "skip", idx |-> foundAhead + 1,
                 st |-> SetStatus(MarkSkippedAhead(ws, st, idx, foundAhead, idx),
                                  foundAhead, "correct"),
                 target |-> foundAhead]
           ELSE [kind |-> "noise", idx |-> idx, st |-> st, target |-> foundAhead]

\* Step 3: the long-jump fallback at the start of an ayah
StepLongJump(ws, newWords, wIdx, idx, st) ==
  LET hasNextUserWord == HasAt(newWords, wIdx + 1)
      best == BestJump(ws, idx, At(newWords, wIdx), idx + 1, <<-1, <<0, 1>>>>)
      bestIdx == best[1]
      bestSim == best[2]
      nextExpected == HasNormalized(ws, bestIdx + 1)
      nextSim == IF nextExpected
                 THEN calculateSimilarity(At(newWords, wIdx + 1),
                                          At(ws, bestIdx + 1).normalized)
                 ELSE <<0, 1>>
  IN  IF ~hasNextUserWord
      THEN [kind |-> "defer_jump", idx |-> idx, st |-> st, target |-> -1]
      ELSE IF /\ bestIdx # -1
              /\ SimGE(bestSim, LONG_JUMP_DETECT_THRESHOLD)
              /\ (~nextExpected \/ SimGE(nextSim, LONG_JUMP_CONFIRM_THRESHOLD))
           THEN [kind |-> "jump", idx |-> bestIdx + 1,
                 st |-> SetStatus(MarkSkippedJump(st, idx, bestIdx), bestIdx, "correct"),
                 target |-> bestIdx]
           ELSE [kind |-> "noise", idx |-> idx, st |-> st, target |-> -1]

\* Variant: any similarity above zero counts as a match at the cursor
\* (currentSimilarity > 0)
Step_AnySimilarity(ws, newWords, wIdx, idx, st) ==
  IF idx >= Len(ws)
  THEN [kind |-> "past_end", idx |-> idx, st |-> st, target |-> -1]
  ELSE LET userWord == At(newWords, wIdx)
           currentRef == At(ws, idx)
           currentSimilarity == calculateSimilarity(userWord, currentRef.normalized)
           foundAhead == FindAhead(ws, idx, userWord, idx + 1)
       IN  IF SimGT(currentSimilarity, <<0, 1>>)
           THEN StepAtCursor(ws, newWords, wIdx, idx, st)
           ELSE IF foundAhead # -1
                THEN StepLookahead(ws, newWords, wIdx, idx, st, foundAhead)
           ELSE IF isAyahStart(ws, idx)
                THEN StepLongJump(ws, newWords, wIdx, idx, st)
           ELSE [kind |-> "noise", idx |-> idx, st |-> st, target |-> -1]

\* The body of the loop for newWords[wIdx] with the cursor at idx
Step(ws, newWords, wIdx, idx, st) ==
  IF idx >= Len(ws)
  THEN [kind |-> "past_end", idx |-> idx, st |-> st, target |-> -1]
  ELSE LET userWord == At(newWords, wIdx)
           currentRef == At(ws, idx)
           currentSimilarity == calculateSimilarity(userWord, currentRef.normalized)
           foundAhead == FindAhead(ws, idx, userWord, idx + 1)
       IN  IF SimGE(currentSimilarity, CurrentMatchThreshold(ws, idx))
           THEN StepAtCursor(ws, newWords, wIdx, idx, st)
           ELSE IF foundAhead # -1
                THEN StepLookahead(ws, newWords, wIdx, idx, st, foundAhead)
           ELSE IF isAyahStart(ws, idx)
                THEN StepLongJump(ws, newWords, wIdx, idx, st)
           ELSE [kind |-> "noise", idx |-> idx, st |-> st, target |-> -1]

IsDefer(kind) == kind \in {"defer_start", "defer_skip", "defer_jump"}

\* Variant: the noise fall-through forgets processedInThisRun++
CountProcessed_SkipsNoise(processedInThisRun, kind) ==
  IF IsDefer(kind) \/ kind = "noise" THEN processedInThisRun ELSE processedInThisRun + 1

\* Variant: a deferred word is counted as processed as well
CountProcessed_CountsDeferred(processedInThisRun, kind) == processedInThisRun + 1

\* Variant: the commit of an at-cursor match forgets processedInThisRun++
CountProcessed_SkipsMatches(processedInThisRun, kind) ==
  IF IsDefer(kind) \/ kind = "match" THEN processedInThisRun ELSE processedInThisRun + 1

\* processedInThisRun after the loop body ran for one word
CountProcessed(processedInThisRun, kind) ==
  IF IsDefer(kind) THEN processedInThisRun ELSE processedInThisRun + 1

\* for (let wIdx = 0; wIdx < newWords.length; wIdx++) { ... }
\* acc = [idx, st, processed, log]; log records, per word the body ran for,
\* its index in userWords, the cursor it met, and what the body decided.
RECURSIVE ProcessWords(_, _, _, _, _)
ProcessWords(ws, newWords, base, wIdx, acc) ==
  IF wIdx >= Len(newWords) THEN acc
  ELSE LET r == Step(ws, newWords, wIdx, acc.idx, acc.st)
           entry == [tok |-> base + wIdx, kind |-> r.kind,
                     at |-> acc.idx, target |-> r.target]
           next == [idx |-> r.idx, st |-> r.st,
                    processed |-> CountProcessed(acc.processed, r.kind),
                    log |-> Append(acc.log, entry)]
       IN  IF IsDefer(r.kind) THEN next
           ELSE ProcessWords(ws, newWords, base, wIdx + 1, next)

\* Variant: the loop starts from position 0 instead of the cursor
RunLoop_FromStart(ws, cwi, lastProcessedCount, userWords) ==
  LET newWords == SubSeq(userWords, lastProcessedCount + 1, Len(userWords))
  IN  ProcessWords(ws, newWords, lastProcessedCount, 0,
                   [idx |-> 0, st |-> ws, processed |-> 0, log |-> <<>>])

\* The loop over the words beyond lastProcessedCount, from the cursor
RunLoop(ws, cwi, lastProcessedCount, userWords) ==
  LET newWords == SubSeq(userWords, lastProcessedCount + 1, Len(userWords))
  IN  ProcessWords(ws, newWords, lastProcessedCount, 0,
                   [idx |-> cwi, st |-> ws, processed |-> 0, log |-> <<>>])

\* userWords of the effect: the hook's transcript, trimmed, normalized, split
UserWords(tr) == SplitWords(normalizeArabic(Trim(Trim(tr))))

\* ------------------------------------------------------------------------
\* Bounds of the model
\* ------------------------------------------------------------------------
\* Final results the recognizer delivers between two resets of the transcript
MaxTokens == 3
\* Restart timers that are pending but no longer referenced by restartTimeoutRef
MaxOrphans == 1
\* The longest argument string of a function under test
MaxStrLen == 3

\* ------------------------------------------------------------------------
\* State
\* ------------------------------------------------------------------------
VARIABLES
  surah,                  \* RecitePage: the loaded surah (its ayah texts), or NoSurah
  wordStatuses,           \* RecitePage: useState<WordStatus[]>
  currentWordIndex,       \* RecitePage: useState(0), the cursor
  lastProcessedCountRef,  \* RecitePage: useRef(0), the consumed hypothesis count
  userStopped,            \* RecitePage: useState(false)
  isListening,            \* hook: useState(false)
  transcript,             \* hook: useState(''), untrimmed
  error,                  \* hook: useState<string | null>(null)
  shouldRestartRef,       \* hook: useRef(false)
  timers,                 \* hook: restartTimeoutRef and the pending setTimeout callbacks
  rec,                    \* the browser's SpeechRecognition session
  stopRequested,          \* history: stopListening ran and startListening has not since
  lastRun,                \* history: the log of the latest run of the matching effect, or
                          \*   one "reset" entry (target 1: the reset threw away progress
                          \*   and a deferred token)
  resolvedTimes,          \* history: per hypothesis token, how often it was counted processed
  matchedBy,              \* history: per reference position, the word that marked it correct
  str1,                   \* a function under test: its first argument
  str2,                   \* a function under test: its second argument
  returned                \* a function under test: [fn, value] once it was applied

pageVars == <<surah, wordStatuses, currentWordIndex, lastProcessedCountRef, userStopped>>
hookVars == <<isListening, transcript, error, shouldRestartRef, timers, rec>>
histVars == <<stopRequested, lastRun, resolvedTimes, matchedBy>>
fnVars == <<str1, str2, returned>>
vars == <<pageVars, hookVars, histVars, fnVars>>

NoOutput == [fn |-> "none", value |-> <<>>]
NoArguments == str1 = <<>> /\ str2 = <<>> /\ returned = NoOutput

NoTimers == [ref |-> "none", orphans |-> <<>>]

\* No word has marked the position correct
NoMatch == [tok |-> -1, kind |-> "none", at |-> -1]
Unmatched(ws) == [i \in 1..Len(ws) |-> NoMatch]

InitPage ==
  /\ surah = NoSurah
  /\ wordStatuses = <<>>
  /\ currentWordIndex = 0
  /\ lastProcessedCountRef = 0
  /\ userStopped = FALSE
  /\ isListening = FALSE
  /\ transcript = <<>>
  /\ error = "null"
  /\ shouldRestartRef = FALSE
  /\ timers = NoTimers
  /\ rec = "idle"
  /\ stopRequested = FALSE
  /\ lastRun = <<>>
  /\ resolvedTimes = <<>>
  /\ matchedBy = <<>>

Init == InitPage /\ NoArguments

\* ------------------------------------------------------------------------
\* The browser's recognizer and timers
\* ------------------------------------------------------------------------
\* recognition.start(): throws unless the session is idle
StartThrows(r) == r # "idle"
RecAfterStart(r) == IF r = "idle" THEN "starting" ELSE r

\* recognition.stop(): ends a session that is starting or running
RecAfterStop(r) == IF r \in {"starting", "running"} THEN "ending" ELSE r

\* restartTimeoutRef.current = setTimeout(...): the timer the ref held, if it is
\* still pending, stays pending without a reference to it
SetTimeout(t, kind) ==
  [ref |-> kind,
   orphans |-> IF t.ref = "none" THEN t.orphans ELSE Append(t.orphans, t.ref)]

CanSetTimeout(t) == t.ref = "none" \/ Len(t.orphans) < MaxOrphans

\* clearTimeout(restartTimeoutRef.current)
ClearTimeout(t) == [t EXCEPT !.ref = "none"]

\* ------------------------------------------------------------------------
\* useSpeechRecognition
\* ------------------------------------------------------------------------
\* stopListening(): the next values of the hook's state
StopListening ==
  /\ shouldRestartRef' = FALSE
  /\ timers' = ClearTimeout(timers)
  /\ rec' = RecAfterStop(rec)
  /\ isListening' = FALSE
  /\ stopRequested' = TRUE
  /\ UNCHANGED error

\* startListening(), called from a render in which isListening has the value seen
StartListening(seenListening) ==
  /\ IF ~seenListening
     THEN /\ shouldRestartRef' = TRUE
          /\ rec' = RecAfterStart(rec)
     ELSE UNCHANGED <<shouldRestartRef, rec>>
  /\ stopRequested' = FALSE
  /\ UNCHANGED <<isListening, error, timers>>

\* recognition.onstart
OnStart ==
  /\ rec = "starting"
  /\ rec' = "running"
  /\ isListening' = TRUE
  /\ error' = "null"
  /\ shouldRestartRef' = TRUE
  /\ UNCHANGED <<pageVars, transcript, timers, histVars, fnVars>>

\* Variant: onend marks the session stopped whatever shouldRestartRef says
OnEnd_NeverRestarts ==
  /\ rec \in {"running", "ending"}
  /\ rec' = "idle"
  /\ isListening' = FALSE
  /\ UNCHANGED timers
  /\ UNCHANGED <<pageVars, transcript, error, shouldRestartRef, histVars, fnVars>>

\* recognition.onend: the session is over, by itself or after stop() or an error
OnEnd ==
  /\ rec \in {"running", "ending"}
  /\ rec' = "idle"
  /\ IF shouldRestartRef
     THEN /\ CanSetTimeout(timers)
          /\ timers' = SetTimeout(timers, "end")
          /\ UNCHANGED isListening
     ELSE /\ isListening' = FALSE
          /\ UNCHANGED timers
  /\ UNCHANGED <<pageVars, transcript, error, shouldRestartRef, histVars, fnVars>>

ErrorTypes == {"no-speech", "aborted", "network", "not-allowed", "audio-capture"}
Recoverable == {"no-speech", "aborted", "network"}

\* recognition.onerror(event); the session ends and onend follows
OnError(errorType) ==
  /\ rec \in {"starting", "running"}
  /\ rec' = "ending"
  /\ IF errorType \in Recoverable
     THEN /\ IF shouldRestartRef
             THEN /\ CanSetTimeout(timers)
                  /\ timers' = SetTimeout(timers, "err")
             ELSE UNCHANGED timers
          /\ UNCHANGED <<error, shouldRestartRef, isListening>>
     ELSE IF errorType = "not-allowed"
     THEN /\ error' = "not-allowed"
          /\ shouldRestartRef' = FALSE
          /\ isListening' = FALSE
          /\ UNCHANGED timers
     ELSE /\ error' = errorType
          /\ UNCHANGED <<shouldRestartRef, isListening, timers>>
  /\ UNCHANGED <<pageVars, transcript, histVars, fnVars>>

\* The number of hypothesis tokens in the hook's transcript
TokenCount == Len(UserWords(transcript))

\* Variant: the new final result replaces the transcript
OnResult_Replaces(finalTranscript) ==
  /\ rec \in {"running", "ending"}
  /\ Len(UserWords(transcript)) < MaxTokens
  /\ transcript' = finalTranscript
  /\ UNCHANGED <<pageVars, isListening, error, shouldRestartRef, timers, rec, histVars, fnVars>>

\* recognition.onresult with one accepted final result (a result that is
\* throttled, below the confidence bar or interim leaves the transcript alone)
OnResult(finalTranscript) ==
  /\ rec \in {"running", "ending"}
  /\ TokenCount < MaxTokens
  /\ transcript' = transcript \o <<SPACE>> \o finalTranscript
  /\ UNCHANGED <<pageVars, isListening, error, shouldRestartRef, timers, rec, histVars, fnVars>>

\* The callback of a pending restart timer runs: the one restartTimeoutRef
\* refers to (k = 0) or the k-th orphan.
TimerKind(k) == IF k = 0 THEN timers.ref ELSE timers.orphans[k]

TimersWithout(k) ==
  IF k = 0 THEN [timers EXCEPT !.ref = "none"]
  ELSE [timers EXCEPT !.orphans =
          SubSeq(timers.orphans, 1, k - 1) \o
          SubSeq(timers.orphans, k + 1, Len(timers.orphans))]

RestartTimerFires(k) ==
  /\ IF k = 0 THEN timers.ref # "none" ELSE k \in 1..Len(timers.orphans)
  /\ timers' = TimersWithout(k)
  /\ rec' = RecAfterStart(rec)
  /\ IF StartThrows(rec) /\ TimerKind(k) = "end"
     THEN isListening' = FALSE
     ELSE UNCHANGED isListening
  /\ UNCHANGED <<pageVars, transcript, error, shouldRestartRef, histVars, fnVars>>

\* ------------------------------------------------------------------------
\* RecitePage
\* ------------------------------------------------------------------------
\* Variant: completion is computed one word early
allComplete_AtLastWord ==
  Len(wordStatuses) > 0 /\ currentWordIndex >= Len(wordStatuses) - 1

\* allComplete
allComplete == Len(wordStatuses) > 0 /\ currentWordIndex >= Len(wordStatuses)

\* A reset in this state throws away progress and a deferred token
DiscardsDeferral ==
  /\ currentWordIndex > 0
  /\ lastRun # <<>>
  /\ IsDefer(lastRun[Len(lastRun)].kind)

\* Variant: the reset leaves lastProcessedCountRef alone
ResetWordStatuses_KeepsCount(s) ==
  /\ wordStatuses' = BuildStatuses(s)
  /\ currentWordIndex' = 0
  /\ UNCHANGED lastProcessedCountRef
  /\ lastRun' = <<[tok |-> -1, kind |-> "reset", at |-> -1,
                   target |-> IF DiscardsDeferral THEN 1 ELSE 0]>>
  /\ resolvedTimes' = <<>>
  /\ matchedBy' = Unmatched(BuildStatuses(s))

\* resetWordStatuses(), and the effect that initialises the statuses on load
ResetWordStatuses(s) ==
  /\ wordStatuses' = BuildStatuses(s)
  /\ currentWordIndex' = 0
  /\ lastProcessedCountRef' = 0
  /\ lastRun' = <<[tok |-> -1, kind |-> "reset", at |-> -1,
                   target |-> IF DiscardsDeferral THEN 1 ELSE 0]>>
  /\ resolvedTimes' = <<>>
  /\ matchedBy' = Unmatched(BuildStatuses(s))

\* loadSurah resolves with the surah, and the initialisation effect runs
LoadSurah(s) ==
  /\ surah = NoSurah
  /\ surah' = s
  /\ ResetWordStatuses(s)
  /\ UNCHANGED <<userStopped, hookVars, stopRequested, fnVars>>

\* handleVoiceToggle
HandleVoiceToggle ==
  /\ surah # NoSurah
  /\ IF isListening
     THEN /\ userStopped' = TRUE
          /\ StopListening
          /\ UNCHANGED <<surah, wordStatuses, currentWordIndex, lastProcessedCountRef,
                         transcript, lastRun, resolvedTimes, matchedBy, fnVars>>
     ELSE /\ userStopped' = FALSE
          /\ transcript' = <<>>
          /\ ResetWordStatuses(surah)
          /\ StartListening(isListening)
          /\ UNCHANGED <<surah, fnVars>>

\* handleRetry
HandleRetry ==
  /\ surah # NoSurah
  /\ userStopped' = FALSE
  /\ transcript' = <<>>
  /\ ResetWordStatuses(surah)
  /\ UNCHANGED <<surah, isListening, error, shouldRestartRef, timers, rec, stopRequested, fnVars>>

\* The counts of resolvedTimes after a run whose log is given, over n tokens
ResolvedAfter(old, log, n) ==
  [k \in 1..n |->
     (IF k <= Len(old) THEN old[k] ELSE 0)
     + Cardinality({e \in 1..Len(log) : log[e].tok = k - 1 /\ ~IsDefer(log[e].kind)})]

\* The position a committing entry of the log marked correct
IsCommit(kind) == kind \in {"match", "skip", "jump"}
MarkedBy(entry) == IF entry.kind = "match" THEN entry.at ELSE entry.target

\* matchedBy after a run whose log is given
MatchedAfter(old, log) ==
  [i \in 1..Len(old) |->
     IF \E e \in 1..Len(log) : IsCommit(log[e].kind) /\ MarkedBy(log[e]) = i - 1
     THEN LET e == CHOOSE e \in 1..Len(log) :
                     IsCommit(log[e].kind) /\ MarkedBy(log[e]) = i - 1
          IN  [tok |-> log[e].tok, kind |-> log[e].kind, at |-> log[e].at]
     ELSE old[i]]

\* lastProcessedCountRef.current after the loop
NextProcessedCount(lastProcessedCount, processedInThisRun) ==
  lastProcessedCount + processedInThisRun

\* The early returns of the matching effect
EffectReturnsEarly(listening, ws, cwi, lastProcessedCount, userWords) ==
  \/ ~listening \/ Len(ws) = 0
  \/ cwi >= Len(ws)
  \/ Len(userWords) <= lastProcessedCount

\* The incremental matching effect, past its early returns
MatchEffect ==
  LET userWords == UserWords(transcript)
      lastProcessedCount == lastProcessedCountRef
      out == RunLoop(wordStatuses, currentWordIndex, lastProcessedCount, userWords)
  IN  /\ ~EffectReturnsEarly(isListening, wordStatuses, currentWordIndex,
                             lastProcessedCount, userWords)
      /\ IF out.idx # currentWordIndex
         THEN /\ wordStatuses' = out.st
              /\ currentWordIndex' = out.idx
         ELSE UNCHANGED <<wordStatuses, currentWordIndex>>
      /\ lastProcessedCountRef' = NextProcessedCount(lastProcessedCount, out.processed)
      /\ lastRun' = out.log
      /\ resolvedTimes' = ResolvedAfter(resolvedTimes, out.log, Len(userWords))
      /\ matchedBy' = MatchedAfter(matchedBy, out.log)
      /\ UNCHANGED <<surah, userStopped, hookVars, stopRequested, fnVars>>

\* The auto-stop effect
AutoStopEffect ==
  /\ allComplete /\ isListening
  /\ userStopped' = TRUE
  /\ StopListening
  /\ UNCHANGED <<surah, wordStatuses, currentWordIndex, lastProcessedCountRef,
                 transcript, lastRun, resolvedTimes, matchedBy, fnVars>>

\* ------------------------------------------------------------------------
\* Specification
\* ------------------------------------------------------------------------
\* The page with a recognizer that runs until it is stopped.
NextEngine ==
  \/ \E s \in Surahs : LoadSurah(s)
  \/ HandleVoiceToggle
  \/ HandleRetry
  \/ MatchEffect
  \/ AutoStopEffect
  \/ OnStart
  \/ (rec = "ending" /\ OnEnd)
  \/ \E finalTranscript \in HypVocab(surah) : OnResult(finalTranscript)
  \/ RestartTimerFires(0)

SpecEngine == Init /\ [][NextEngine]_vars

\* The hook and the recognizer, with every recognizer event, under the page's
\* start/stop handlers; no results are delivered.
NextHook ==
  \/ \E s \in Surahs : LoadSurah(s)
  \/ HandleVoiceToggle
  \/ OnStart
  \/ OnEnd
  \/ \E errorType \in ErrorTypes : OnError(errorType)
  \/ \E k \in 0..MaxOrphans : RestartTimerFires(k)

SpecHook == Init /\ [][NextHook]_vars

\* The same, with what the browser guarantees: a session that is ending fires
\* onend, and a pending timer fires.
FairHook ==
  /\ WF_vars(rec = "ending" /\ OnEnd)
  /\ \A k \in 0..MaxOrphans : WF_vars(RestartTimerFires(k))

SpecHookFair == Init /\ [][NextHook]_vars /\ FairHook

\* Surahs that fit the buffer, recited with the effect running after every
\* render that changed one of its dependencies.
RecitableSurahs == {SurahTwo, SurahPair}

NextRecite ==
  \/ \E s \in RecitableSurahs : LoadSurah(s)
  \/ HandleVoiceToggle
  \/ HandleRetry
  \/ MatchEffect
  \/ AutoStopEffect
  \/ OnStart
  \/ (rec = "ending" /\ OnEnd)
  \/ \E finalTranscript \in HypVocab(surah) : OnResult(finalTranscript)
  \/ RestartTimerFires(0)

\* The matching effect has work to do: it is past its early returns and its
\* run changes the state (ENABLED <<MatchEffect>>_vars, spelled out)
MatchPending ==
  LET userWords == UserWords(transcript)
      out == RunLoop(wordStatuses, currentWordIndex, lastProcessedCountRef, userWords)
  IN  /\ ~EffectReturnsEarly(isListening, wordStatuses, currentWordIndex,
                             lastProcessedCountRef, userWords)
      /\ \/ out.processed # 0
         \/ out.log # lastRun
         \/ Len(resolvedTimes) # Len(userWords)

\* Both effects run after the render that changed their dependencies: weak
\* fairness of AutoStopEffect and of MatchEffect, the latter with its
\* enabling condition written as MatchPending
FairRecite ==
  /\ WF_vars(AutoStopEffect)
  /\ (<>[]MatchPending => []<><<MatchEffect>>_vars)

SpecRecite == Init /\ [][NextRecite]_vars /\ FairRecite

\* One surah recited through sessions that end, fail and restart.
NextSession ==
  \/ LoadSurah(SurahTwo)
  \/ HandleVoiceToggle
  \/ HandleRetry
  \/ MatchEffect
  \/ AutoStopEffect
  \/ OnStart
  \/ OnEnd
  \/ \E errorType \in Recoverable : OnError(errorType)
  \/ \E finalTranscript \in HypVocab(surah) : OnResult(finalTranscript)
  \/ \E k \in 0..MaxOrphans : RestartTimerFires(k)

SpecSession == Init /\ [][NextSession]_vars

\* The matching effect as a function of its inputs: it is run once on any
\* statuses, cursor, consumed count and transcript, also ones the page never
\* hands it.
ReturnedEarly == <<[tok |-> -1, kind |-> "return", at |-> -1, target |-> -1]>>

RECURSIVE Transcripts(_, _)
Transcripts(s, n) ==
  IF n = 0 THEN {<<>>}
  ELSE LET shorter == Transcripts(s, n - 1)
       IN  shorter \cup {t \o <<SPACE>> \o w : t \in shorter, w \in HypVocab(s)}

StatusesAtCursor(s, cwi) ==
  LET ws == BuildStatuses(s)
  IN  [i \in 1..Len(ws) |->
         IF i <= cwi THEN [ws[i] EXCEPT !.status = "correct"] ELSE ws[i]]

InitAdvance ==
  /\ surah \in Surahs
  /\ currentWordIndex \in 0..Len(BuildStatuses(surah))
  /\ wordStatuses = StatusesAtCursor(surah, currentWordIndex)
  /\ lastProcessedCountRef \in 0..MaxTokens
  /\ transcript \in Transcripts(surah, MaxTokens)
  /\ isListening \in BOOLEAN
  /\ userStopped = FALSE
  /\ error = "null"
  /\ shouldRestartRef = isListening
  /\ timers = NoTimers
  /\ rec = IF isListening THEN "running" ELSE "idle"
  /\ stopRequested = FALSE
  /\ lastRun = <<>>
  /\ resolvedTimes = [k \in 1..TokenCount |-> IF k <= lastProcessedCountRef THEN 1 ELSE 0]
  /\ matchedBy = Unmatched(wordStatuses)
  /\ NoArguments

\* Variant: on a buffer shorter than the consumed count the effect moves the
\* count back to the buffer's length
AdvanceCall_ResyncsOnTruncation ==
  /\ lastRun = <<>>
  /\ IF Len(UserWords(transcript)) < lastProcessedCountRef
     THEN /\ lastProcessedCountRef' = Len(UserWords(transcript))
          /\ lastRun' = ReturnedEarly
          /\ UNCHANGED <<surah, wordStatuses, currentWordIndex, userStopped,
                         hookVars, stopRequested, resolvedTimes, matchedBy, fnVars>>
     ELSE IF EffectReturnsEarly(isListening, wordStatuses, currentWordIndex,
                                lastProcessedCountRef, UserWords(transcript))
     THEN /\ lastRun' = ReturnedEarly
          /\ UNCHANGED <<pageVars, hookVars, stopRequested, resolvedTimes, matchedBy, fnVars>>
     ELSE MatchEffect

\* One run of the effect, early returns included
AdvanceCall ==
  /\ lastRun = <<>>
  /\ IF EffectReturnsEarly(isListening, wordStatuses, currentWordIndex,
                           lastProcessedCountRef, UserWords(transcript))
     THEN /\ lastRun' = ReturnedEarly
          /\ UNCHANGED <<pageVars, hookVars, stopRequested, resolvedTimes, matchedBy, fnVars>>
     ELSE MatchEffect

SpecAdvance == InitAdvance /\ [][AdvanceCall]_vars

\* The strings of at most n characters of an alphabet
RECURSIVE StringsUpTo(_, _)
StringsUpTo(alphabet, n) ==
  IF n = 0 THEN {<<>>}
  ELSE LET shorter == StringsUpTo(alphabet, n - 1)
       IN  shorter \cup {Append(t, c) : t \in shorter, c \in alphabet}

\* calculateSimilarity applied to any two strings
SimilarityAlphabet == {ALEF, HAA, YAA}

InitSimilarity ==
  /\ InitPage
  /\ str1 \in StringsUpTo(SimilarityAlphabet, MaxStrLen)
  /\ str2 \in StringsUpTo(SimilarityAlphabet, MaxStrLen)
  /\ returned = NoOutput

ApplySimilarity ==
  /\ returned = NoOutput
  /\ returned' = [fn |-> "calculateSimilarity", value |-> calculateSimilarity(str1, str2)]
  /\ UNCHANGED <<pageVars, hookVars, histVars, str1, str2>>

SpecSimilarity == InitSimilarity /\ [][ApplySimilarity]_vars

\* normalizeArabic applied to any string, and then to its own output
NormalizeAlphabet ==
  {"b", ALEF, FATHA, SUPERSCRIPT_ALEF, TATWEEL, ALEF_HAMZA_ABOVE, TAA_MARBUTA,
   ALEF_MAKSURA, WAQF_JEEM, SPACE, TAB}

InitNormalize ==
  /\ InitPage
  /\ str1 \in StringsUpTo(NormalizeAlphabet, MaxStrLen)
  /\ str2 = <<>>
  /\ returned = NoOutput

ApplyNormalize ==
  /\ returned = NoOutput
  /\ returned' = [fn |-> "normalizeArabic", value |-> normalizeArabic(str1)]
  /\ UNCHANGED <<pageVars, hookVars, histVars, str1, str2>>

ApplyNormalizeAgain ==
  /\ returned.fn = "normalizeArabic"
  /\ str2' = returned.value
  /\ returned' = [fn |-> "normalizeArabic twice", value |-> normalizeArabic(returned.value)]
  /\ UNCHANGED <<pageVars, hookVars, histVars, str1>>

NextNormalize == ApplyNormalize \/ ApplyNormalizeAgain

SpecNormalize == InitNormalize /\ [][NextNormalize]_vars

Next == NextEngine \/ NextHook

Spec == Init /\ [][Next]_vars

\* ------------------------------------------------------------------------
\* Properties
\* ------------------------------------------------------------------------
N == Len(wordStatuses)
StatusAt(i) == At(wordStatuses, i).status
RefNormalized == [i \in 1..N |-> wordStatuses[i].normalized]
Ran == lastRun # <<>> /\ lastRun[1].kind # "reset"
LastEntry == lastRun[Len(lastRun)]

\* A step that resets the attempt: the surah loads, the user starts, or retries
ResetStep ==
  \/ \E s \in Surahs : LoadSurah(s)
  \/ (~isListening /\ HandleVoiceToggle)
  \/ HandleRetry

\* C1: without a reset the cursor never decreases and a status that is not
\* pending never changes.
C1_Monotonic ==
  [][ ~ResetStep =>
        /\ currentWordIndex' >= currentWordIndex
        /\ Len(wordStatuses') = Len(wordStatuses)
        /\ \A i \in 1..Len(wordStatuses) :
             wordStatuses[i].status # "pending" =>
               wordStatuses'[i].status = wordStatuses[i].status ]_vars

\* A run of the effect that began with the cursor past 0 moved it further.
C1_Witness ==
  /\ Ran
  /\ lastRun[1].at > 0
  /\ currentWordIndex > lastRun[1].at

\* C2: every position below the cursor has a status other than pending.
C2_BelowCursorSettled ==
  \A i \in 0..(currentWordIndex - 1) : StatusAt(i) # "pending"

\* The latest run committed a lookahead skip onto the first word of the next ayah.
C2_Witness ==
  /\ Ran
  /\ \E e \in 1..Len(lastRun) :
       /\ lastRun[e].kind = "skip"
       /\ At(wordStatuses, lastRun[e].target).ayahIndex
            = At(wordStatuses, lastRun[e].at).ayahIndex + 1
       /\ currentWordIndex > lastRun[e].target

\* C3: the consumed count never exceeds the number of hypothesis tokens, never
\* decreases without a reset, a run examines only tokens at or beyond it, each
\* consumed token was counted processed exactly once and no other token was,
\* and a deferred token is not counted.
C3_State(lastProcessedCount, tr, resolved) ==
  /\ lastProcessedCount <= Len(UserWords(tr))
  /\ Len(resolved) <= Len(UserWords(tr))
  /\ \A k \in 1..Len(resolved) :
       resolved[k] = IF k <= lastProcessedCount THEN 1 ELSE 0
  /\ lastProcessedCount <= Len(resolved)

C3_ConsumedOnce ==
  [][ /\ C3_State(lastProcessedCountRef', transcript', resolvedTimes')
      /\ ~ResetStep => lastProcessedCountRef' >= lastProcessedCountRef
      /\ MatchEffect =>
           \A e \in 1..Len(lastRun') :
             /\ lastRun'[e].tok >= lastProcessedCountRef
             /\ IsDefer(lastRun'[e].kind) =>
                  lastRun'[e].tok >= lastProcessedCountRef' ]_vars

\* After some tokens were consumed, the last token of the buffer is deferred.
C3_Witness ==
  /\ Ran
  /\ lastProcessedCountRef > 0
  /\ IsDefer(LastEntry.kind)
  /\ LastEntry.tok = lastProcessedCountRef
  /\ TokenCount = lastProcessedCountRef + 1

\* Running the effect in the state given would change nothing.
AdvanceIsNoOp(listening, ws, cwi, lastProcessedCount, tr) ==
  LET userWords == UserWords(tr)
      out == RunLoop(ws, cwi, lastProcessedCount, userWords)
  IN  \/ ~listening
      \/ Len(ws) = 0
      \/ cwi >= Len(ws)
      \/ Len(userWords) <= lastProcessedCount
      \/ /\ out.idx = cwi
         /\ NextProcessedCount(lastProcessedCount, out.processed) = lastProcessedCount

\* C4: a second run of the effect on an unchanged transcript changes neither
\* the statuses nor the cursor nor the consumed count.
C4_Idempotent ==
  [][ MatchEffect =>
        AdvanceIsNoOp(isListening', wordStatuses', currentWordIndex',
                      lastProcessedCountRef', transcript') ]_vars

\* A run moved the cursor and ended by deferring the last token; the effect
\* can run again.
C4_Witness ==
  /\ Ran
  /\ lastRun[1].kind = "match"
  /\ IsDefer(LastEntry.kind)
  /\ isListening
  /\ currentWordIndex < N
  /\ TokenCount > lastProcessedCountRef

\* ---- C5 --------------------------------------------------------------
AllNonEmpty == \A i \in 1..N : Len(RefNormalized[i]) > 0
AllCorrect == \A i \in 0..(N - 1) : StatusAt(i) = "correct"

\* The transcript holds exactly the first k reference tokens and the effect
\* has run on the last of them.
RecitedPrefix(k) ==
  /\ Ran
  /\ UserWords(transcript) = SubSeq(RefNormalized, 1, k)
  /\ LastEntry.tok = k - 1

\* C5 as stated: reciting the reference itself, position 0 is correct and
\* position 1 pending once the first token was processed, and everything is
\* correct and complete once the last token was processed.
C5_Original ==
  N >= 2 =>
    /\ RecitedPrefix(1) => (StatusAt(0) = "correct" /\ StatusAt(1) = "pending")
    /\ RecitedPrefix(N) => (AllCorrect /\ currentWordIndex = N /\ allComplete)

\* C5 amended: reciting a reference whose tokens all have a non-empty
\* normalized form, positions 0 and 1 are both still pending once the first
\* token was processed (the token is deferred, not consumed), and everything
\* is correct and complete once the last token was processed.
C5_Amended ==
  (N >= 2 /\ AllNonEmpty) =>
    /\ RecitedPrefix(1) =>
         /\ StatusAt(0) = "pending" /\ StatusAt(1) = "pending"
         /\ currentWordIndex = 0 /\ lastProcessedCountRef = 0
    /\ RecitedPrefix(N) =>
         /\ AllCorrect /\ currentWordIndex = N /\ allComplete
         /\ lastProcessedCountRef = N

\* A two-token reference was recited and is complete.
C5_Witness ==
  /\ N = 2 /\ AllNonEmpty
  /\ RecitedPrefix(N)
  /\ allComplete

\* ---- C6 --------------------------------------------------------------
\* The cursor is at the start of an ayah and the only unconsumed token matches
\* the reference word at the cursor.
OneMatchingTokenAtStart ==
  LET userWords == UserWords(transcript)
  IN  /\ currentWordIndex < N
      /\ isAyahStart(wordStatuses, currentWordIndex)
      /\ Len(userWords) = lastProcessedCountRef + 1
      /\ SimGE(calculateSimilarity(userWords[Len(userWords)],
                                   At(wordStatuses, currentWordIndex).normalized),
               CurrentMatchThreshold(wordStatuses, currentWordIndex))

\* C6 as stated: with any following reference token, the run defers.
C6_Original ==
  [][ (MatchEffect /\ OneMatchingTokenAtStart /\ HasAt(wordStatuses, currentWordIndex + 1))
        => UNCHANGED <<wordStatuses, currentWordIndex, lastProcessedCountRef>> ]_vars

\* C6 amended: with a following reference token whose normalized form is not
\* empty, the run defers: statuses, cursor and consumed count stay as they are.
C6_Amended ==
  [][ (MatchEffect /\ OneMatchingTokenAtStart
         /\ HasNormalized(wordStatuses, currentWordIndex + 1))
        => UNCHANGED <<wordStatuses, currentWordIndex, lastProcessedCountRef>> ]_vars

\* A run deferred on a token equal to the word at the cursor.
C6_Witness ==
  /\ Ran
  /\ Len(lastRun) = 1
  /\ LastEntry.kind = "defer_start"
  /\ At(UserWords(transcript), LastEntry.tok) = At(wordStatuses, currentWordIndex).normalized
  /\ StatusAt(currentWordIndex) = "pending"
  /\ lastProcessedCountRef = LastEntry.tok

\* ---- C7 --------------------------------------------------------------
\* The cursor after the e-th word of the latest run
CursorAfter(e) == IF e < Len(lastRun) THEN lastRun[e + 1].at ELSE currentWordIndex

\* A single ayah of four words, recited as word 0, word 2, word 3, all consumed
SkipExample ==
  /\ N = 4
  /\ \A i \in 1..N : wordStatuses[i].ayahIndex = 0
  /\ UserWords(transcript) = <<RefNormalized[1], RefNormalized[3], RefNormalized[4]>>
  /\ lastProcessedCountRef = 3

\* Every lookahead skip of the latest run marked [at, target) incorrect and
\* the target correct, and left the cursor at target + 1.
SkipCommits ==
  Ran =>
    \A e \in 1..Len(lastRun) :
      lastRun[e].kind = "skip" =>
        /\ lastRun[e].target > lastRun[e].at
        /\ \A i \in lastRun[e].at..(lastRun[e].target - 1) : StatusAt(i) = "incorrect"
        /\ StatusAt(lastRun[e].target) = "correct"
        /\ CursorAfter(e) = lastRun[e].target + 1

ZeroSim(a, b) == calculateSimilarity(a, b)[1] = 0

\* Position i is one the lookahead search from cursor r compares with
InWindow(r, i) ==
  /\ i > r /\ i < Min2(r + LOOKAHEAD_WINDOW, N)
  /\ \/ \A j \in (r + 1)..i : At(wordStatuses, j).ayahIndex = At(wordStatuses, r).ayahIndex
     \/ /\ i = r + 1
        /\ At(wordStatuses, r).isLastWord
        /\ At(wordStatuses, i).ayahIndex = At(wordStatuses, r).ayahIndex + 1

EntryWord(e) == At(UserWords(transcript), lastRun[e].tok)

\* The e-th word of the latest run has similarity 0 to the word at the cursor
\* and to every word of the lookahead window
NoiseInWindow(e) ==
  /\ lastRun[e].at < N
  /\ ZeroSim(EntryWord(e), At(wordStatuses, lastRun[e].at).normalized)
  /\ \A i \in 0..(N - 1) :
       InWindow(lastRun[e].at, i) => ZeroSim(EntryWord(e), At(wordStatuses, i).normalized)

\* ... and to every reference word from the cursor on
NoiseEverywhere(e) ==
  /\ lastRun[e].at < N
  /\ \A i \in lastRun[e].at..(N - 1) :
       ZeroSim(EntryWord(e), At(wordStatuses, i).normalized)

\* C8 as stated: a word that is noise within the window moves nothing and is
\* counted as consumed.
C8_Original ==
  Ran =>
    \A e \in 1..Len(lastRun) :
      NoiseInWindow(e) =>
        /\ CursorAfter(e) = lastRun[e].at
        /\ lastProcessedCountRef > lastRun[e].tok

\* C8 amended: a word with similarity 0 to every reference word from the
\* cursor on moves nothing; it is counted as consumed, unless the cursor is at
\* the start of an ayah and the word is the last of the buffer: then it is
\* deferred.
C8_Amended ==
  Ran =>
    /\ \A e \in 1..Len(lastRun) :
         NoiseEverywhere(e) =>
           /\ CursorAfter(e) = lastRun[e].at
           /\ \/ lastProcessedCountRef > lastRun[e].tok
              \/ /\ isAyahStart(wordStatuses, lastRun[e].at)
                 /\ lastRun[e].tok = Len(resolvedTimes) - 1
                 /\ lastProcessedCountRef = lastRun[e].tok
    /\ (\A e \in 1..Len(lastRun) : NoiseEverywhere(e)) =>
         /\ currentWordIndex = lastRun[1].at
         /\ \A i \in currentWordIndex..(N - 1) : StatusAt(i) = "pending"

\* A word foreign to the whole reference was consumed with the cursor at 0.
C8_Witness ==
  /\ Ran
  /\ NoiseEverywhere(1)
  /\ lastRun[1].at = 0
  /\ lastProcessedCountRef > lastRun[1].tok
  /\ currentWordIndex = 0

\* ---- C9 --------------------------------------------------------------
\* The attempt is as it is right after the surah loaded
FreshAttempt(s, ws, cwi, lastProcessedCount, tr) ==
  /\ ws = BuildStatuses(s)
  /\ \A i \in 1..Len(ws) : ws[i].status = "pending"
  /\ cwi = 0
  /\ lastProcessedCount = 0
  /\ tr = <<>>

\* C9: a retry, and a start, leave every status pending, the cursor and the
\* consumed count at 0 and the transcript empty.
C9_Reset ==
  [][ (HandleRetry \/ (~isListening /\ HandleVoiceToggle)) =>
        FreshAttempt(surah, wordStatuses', currentWordIndex',
                     lastProcessedCountRef', transcript') ]_vars

\* A reset has just thrown away progress and a deferred token.
C9_Witness ==
  /\ lastRun # <<>>
  /\ lastRun[1].kind = "reset"
  /\ lastRun[1].target = 1
  /\ currentWordIndex = 0
  /\ lastProcessedCountRef = 0
  /\ transcript = <<>>

\* ---- C10 -------------------------------------------------------------
\* C10: once stopListening was called, and until the next startListening, the
\* recognizer is not started again and isListening does not become true.
C10_NoRestartAfterStop ==
  stopRequested => (~isListening /\ rec \notin {"starting", "running"})

\* ---- C11 -------------------------------------------------------------
\* The recognizer ended, or reported a recoverable error, while the hook was
\* to keep listening
UnexpectedEnd ==
  /\ shouldRestartRef
  /\ OnEnd \/ \E errorType \in Recoverable : OnError(errorType)

\* The session is over or about to be while the hook is to keep listening
EndedWhileWanted == shouldRestartRef /\ rec \in {"ending", "idle"}

\* C11: an unexpected end leaves isListening and the error as they are and a
\* restart timer pending; and unless the user stops, recognition is started
\* again.
C11_SurvivesEnd ==
  /\ [][ UnexpectedEnd =>
           /\ isListening' = isListening
           /\ error' = error
           /\ shouldRestartRef'
           /\ timers'.ref # "none" ]_vars
  /\ (EndedWhileWanted ~> (rec \in {"starting", "running"} \/ stopRequested))

\* A session was started again while the page still showed listening.
C11_Witness ==
  /\ isListening /\ shouldRestartRef /\ ~stopRequested
  /\ rec = "starting"
  /\ timers = NoTimers

\* ---- C12 -------------------------------------------------------------
\* C12: after a stop, and until the next start or retry, the statuses, the
\* cursor and the consumed count do not change.
C12_FrozenAfterStop ==
  [][ (userStopped /\ ~ResetStep) =>
        UNCHANGED <<wordStatuses, currentWordIndex, lastProcessedCountRef>> ]_vars

\* ---- C13 -------------------------------------------------------------
\* The transcript holds fewer tokens than the consumed count
Truncated(lastProcessedCount, tr) == Len(UserWords(tr)) < lastProcessedCount

IsPrefix(a, b) == Len(a) <= Len(b) /\ SubSeq(b, 1, Len(a)) = a

\* C14: without a reset, the token list the effect reads only grows by
\* appending: the list before a step is a prefix of the list after it.
C14_AppendOnly ==
  [][ ~ResetStep => IsPrefix(UserWords(transcript), UserWords(transcript')) ]_vars

\* A run of the effect began beyond the first token: an earlier run had
\* consumed a shorter list.
C14_Witness ==
  /\ Ran
  /\ lastRun[1].tok >= 1
  /\ TokenCount >= 2
  /\ isListening

\* ---- C15 -------------------------------------------------------------
\* C15: the similarity of two strings lies in [0, 100], is 100 exactly when
\* they are equal, and is 0 when exactly one of them is empty.
C15_SimilarityRange ==
  returned.fn = "calculateSimilarity" =>
    LET sim == returned.value
    IN  /\ sim[2] > 0
        /\ SimGE(sim, 0)
        /\ ~SimGT(sim, <<100, 1>>)
        /\ SimGE(sim, 100) <=> (str1 = str2)
        /\ ((str1 = <<>>) # (str2 = <<>>)) => sim[1] = 0

\* Two different non-empty strings were compared and scored strictly between
\* 0 and 100.
C15_Witness ==
  /\ returned.fn = "calculateSimilarity"
  /\ str1 # <<>> /\ str2 # <<>> /\ str1 # str2
  /\ Len(str1) # Len(str2)
  /\ returned.value[1] > 0
  /\ SimLT(returned.value, 100)

\* ---- C16 -------------------------------------------------------------
\* C16: every reference token carries the normalization of its own word.
C16_OwnNormalization ==
  \A i \in 1..N : wordStatuses[i].normalized = normalizeArabic(wordStatuses[i].word)

\* ---- C17 -------------------------------------------------------------
\* No mark or variant letter, no whitespace at either end, no two whitespace
\* characters in a row
Canonical(s) ==
  /\ \A i \in 1..Len(s) :
       s[i] \notin (Tashkeel \cup {TATWEEL} \cup HamzaVariants
                      \cup {TAA_MARBUTA, ALEF_MAKSURA} \cup WaqfMarks)
  /\ s # <<>> => (s[1] \notin Whitespace /\ s[Len(s)] \notin Whitespace)
  /\ \A i \in 1..(Len(s) - 1) : ~(s[i] \in Whitespace /\ s[i + 1] \in Whitespace)

\* C17: the output of normalizeArabic is canonical, and normalizing it again
\* gives it back.
C17_Canonical ==
  /\ returned.fn = "normalizeArabic" => Canonical(returned.value)
  /\ returned.fn = "normalizeArabic twice" => returned.value = str2

\* A string with whitespace, a variant letter and a mark was normalized twice.
C17_Witness ==
  /\ returned.fn = "normalizeArabic twice"
  /\ str1 = <<TAB, ALEF_HAMZA_ABOVE, WAQF_JEEM>>
  /\ returned.value = <<ALEF>>

\* ---- C18 -------------------------------------------------------------
\* C18 as stated: completion is reported exactly when the cursor is at or past
\* the length of the reference, whatever the length.
C18_Original == allComplete <=> (currentWordIndex >= N)

\* C18 amended: for a non-empty reference completion is reported exactly when
\* the cursor has reached the end, and then no position is pending; for an
\* empty reference it is never reported.
C18_Amended ==
  /\ currentWordIndex <= N
  /\ N > 0 => (allComplete <=> (currentWordIndex = N))
  /\ N = 0 => ~allComplete
  /\ allComplete => \A i \in 0..(N - 1) : StatusAt(i) # "pending"

\* A four-word reference is complete and the page has stopped by itself.
C18_Witness ==
  /\ N = 4
  /\ allComplete
  /\ userStopped /\ ~isListening

\* ---- C19 -------------------------------------------------------------
\* The e-th word of a run committed a skip or a jump, a following hypothesis
\* word exists, and it confirms the reference word after the target; a jump
\* is also confirmed when the target has no next word (hasNext tells which
\* reference words count as a next word).
ConfirmedSkip(log, e, ws, userWords, hasNext) ==
  LET t == log[e].target
      required == IF log[e].kind = "skip" THEN RequiredConfirm(ws, log[e].at, t)
                  ELSE LONG_JUMP_CONFIRM_THRESHOLD
  IN  /\ log[e].kind \in {"skip", "jump"}
      /\ HasAt(userWords, log[e].tok + 1)
      /\ IF hasNext[t + 1]
         THEN SimGE(calculateSimilarity(At(userWords, log[e].tok + 1),
                                        At(ws, t + 1).normalized), required)
         ELSE log[e].kind = "jump"

\* Every position that turns incorrect in a step does so in a run of the
\* effect, under a confirmed skip or jump of that run
SkippedOnlyConfirmed(ws, wsNext, log, userWords, hasNext) ==
  \A i \in 1..Len(ws) :
    (ws[i].status # "incorrect" /\ wsNext[i].status = "incorrect") =>
      \E e \in 1..Len(log) :
        /\ ConfirmedSkip(log, e, ws, userWords, hasNext)
        /\ log[e].at <= i - 1 /\ i - 1 < log[e].target

AnyNext(ws) == [i \in 0..(Len(ws) + 1) |-> HasAt(ws, i)]
NormalizedNext(ws) == [i \in 0..(Len(ws) + 1) |-> HasNormalized(ws, i)]

\* C19 as stated: a jump needs no confirmation only when no reference token
\* follows the target.
C19_Original ==
  [][ (~ResetStep /\ Len(wordStatuses') = Len(wordStatuses)) =>
        SkippedOnlyConfirmed(wordStatuses, wordStatuses', lastRun',
                             UserWords(transcript), AnyNext(wordStatuses)) ]_vars

\* C19 amended: a position is marked skipped only in a run of the effect in
\* which the word that matched the skip or jump target is followed by a second
\* word, and that word confirms the reference word after the target, or (long
\* jump only) no reference word with a non-empty normalized form follows the
\* target.
C19_Amended ==
  [][ (~ResetStep /\ Len(wordStatuses') = Len(wordStatuses)) =>
        SkippedOnlyConfirmed(wordStatuses, wordStatuses', lastRun',
                             UserWords(transcript), NormalizedNext(wordStatuses)) ]_vars

\* A long jump was committed onto a target whose next reference word has an
\* empty normalized form.
C19_Witness ==
  /\ Ran
  /\ \E e \in 1..Len(lastRun) :
       /\ lastRun[e].kind = "jump"
       /\ HasAt(wordStatuses, lastRun[e].target + 1)
       /\ ~HasNormalized(wordStatuses, lastRun[e].target + 1)
       /\ StatusAt(lastRun[e].at) = "incorrect"

\* ---- C20 -------------------------------------------------------------
\* The e-th word of the latest run had a next word in the buffer, and that
\* word has the start-confirmation similarity to the reference word after r
NextWordConfirms(e, r) ==
  /\ lastRun[e].tok + 1 < Len(resolvedTimes)
  /\ HasAt(wordStatuses, r + 1)
  /\ SimGE(calculateSimilarity(At(UserWords(transcript), lastRun[e].tok + 1),
                               At(wordStatuses, r + 1).normalized),
           START_CONFIRM_THRESHOLD)

\* The rule of the start of an ayah, over the words of the latest run
StartRule(hasNext) ==
  Ran =>
    \A e \in 1..Len(lastRun) :
      LET r == lastRun[e].at
      IN  (r < N /\ isAyahStart(wordStatuses, r)) =>
            /\ lastRun[e].kind = "match" => (~hasNext[r + 1] \/ NextWordConfirms(e, r))
            /\ ( /\ SimGE(calculateSimilarity(EntryWord(e), At(wordStatuses, r).normalized),
                          CurrentMatchThreshold(wordStatuses, r))
                 /\ hasNext[r + 1]
                 /\ lastRun[e].tok + 1 < Len(resolvedTimes)
                 /\ ~NextWordConfirms(e, r) )
               => /\ lastRun[e].kind = "unconfirmed"
                  /\ CursorAfter(e) = r
                  /\ currentWordIndex = r => StatusAt(r) = "pending"

\* C20 as stated: the first word of an ayah is committed by an at-cursor match
\* only if no reference word follows or the next word confirms.
C20_Original == StartRule(AnyNext(wordStatuses))

\* C20 amended: the first word of an ayah is marked correct by an at-cursor
\* match only if no reference word with a non-empty normalized form follows,
\* or the next hypothesis word has similarity 45 or more to the following
\* reference word; when a next hypothesis word exists and does not confirm,
\* the position stays pending and the cursor does not move.
C20_Amended == StartRule(NormalizedNext(wordStatuses))

\* A word matched the first word of an ayah, the next word did not confirm,
\* and the position is still pending.
C20_Witness ==
  /\ Ran
  /\ \E e \in 1..Len(lastRun) :
       /\ lastRun[e].kind = "unconfirmed"
       /\ HasNormalized(wordStatuses, lastRun[e].at + 1)
       /\ currentWordIndex = lastRun[e].at
       /\ StatusAt(lastRun[e].at) = "pending"

\* ---- C21 -------------------------------------------------------------
AyahOf(i) == At(wordStatuses, i).ayahIndex

\* C21: every lookahead skip of a run went from its cursor r to a target k
\* with r < k <= r + 5 that is in the ayah of r, or is r + 1 and the first
\* word of the next ayah while r is the last word of its ayah; the cursor
\* went to k + 1.
C21_SkipTarget ==
  Ran =>
    \A e \in 1..Len(lastRun) :
      lastRun[e].kind = "skip" =>
        LET r == lastRun[e].at
            k == lastRun[e].target
        IN  /\ r < k /\ k <= r + 5 /\ k < N
            /\ \/ AyahOf(k) = AyahOf(r)
               \/ /\ k = r + 1
                  /\ At(wordStatuses, r).isLastWord
                  /\ isAyahStart(wordStatuses, k)
                  /\ AyahOf(k) = AyahOf(r) + 1
            /\ CursorAfter(e) = k + 1

\* A skip landed on the last position of the window.
C21_Witness ==
  /\ Ran
  /\ \E e \in 1..Len(lastRun) :
       /\ lastRun[e].kind = "skip"
       /\ lastRun[e].target = lastRun[e].at + 5
       /\ N > lastRun[e].at + 7
       /\ CursorAfter(e) = lastRun[e].target + 1

\* ---- C22 -------------------------------------------------------------
\* The e-th word of the latest run has a successor in the buffer of that run
HasNextWord(e) == lastRun[e].tok + 1 < Len(resolvedTimes)
NextWord(e) == At(UserWords(transcript), lastRun[e].tok + 1)
SimTo(word, i) == calculateSimilarity(word, At(wordStatuses, i).normalized)

\* Steps 1 and 2 find nothing for the e-th word: it is below the threshold of
\* the word at the cursor and the lookahead detects no candidate
StepsFail(e) ==
  LET r == lastRun[e].at
  IN  /\ r >= 0 /\ r < N
      /\ SimLT(SimTo(EntryWord(e), r), CurrentMatchThreshold(wordStatuses, r))
      /\ FindAhead(wordStatuses, r, EntryWord(e), r + 1) = -1

\* t is the first word of an ayah minAhead..12 ayahs after the ayah of r, of
\* normalized length at least minLen
JumpCandidate(r, t, minAhead, minLen) ==
  /\ r < t /\ t < N
  /\ isAyahStart(wordStatuses, t)
  /\ AyahOf(t) >= AyahOf(r) + minAhead
  /\ AyahOf(t) <= AyahOf(r) + 12
  /\ Len(At(wordStatuses, t).normalized) >= minLen

\* The e-th word detects t and the jump is confirmed
JumpDetected(e, t) == SimGE(SimTo(EntryWord(e), t), 95)
NextConfirmsJump(e, t) ==
  /\ HasNextWord(e)
  /\ HasAt(wordStatuses, t + 1)
  /\ SimGE(SimTo(NextWord(e), t + 1), 60)

\* The e-th word of the latest run committed a long jump from r onto t
JumpCommitted(e, t) ==
  LET r == lastRun[e].at
  IN  /\ lastRun[e].kind = "jump"
      /\ lastRun[e].target = t
      /\ CursorAfter(e) = t + 1
      /\ \A i \in r..(t - 1) : StatusAt(i) = "incorrect"
      /\ StatusAt(t) = "correct"

BestCandidate(e, t) ==
  LET r == lastRun[e].at
  IN  \A u \in 0..(N - 1) :
        (u # t /\ JumpCandidate(r, u, 2, 4)) =>
          \/ SimLT(SimTo(EntryWord(e), u), SimTo(EntryWord(e), t))
          \/ (u > t /\ SimGE(SimTo(EntryWord(e), t), SimTo(EntryWord(e), u)))

C22_WitnessConfirmed ==
  /\ Ran
  /\ \E e \in 1..Len(lastRun) :
       /\ StepsFail(e)
       /\ JumpCommitted(e, lastRun[e].target)
       /\ NextConfirmsJump(e, lastRun[e].target)

\* ---- C23 -------------------------------------------------------------
\* The lookahead candidate of the e-th word of the latest run, -1 when the
\* word matched at the cursor or no candidate was detected
CandidateOf(e) ==
  LET r == lastRun[e].at
  IN  IF r >= 0 /\ r < N
         /\ SimLT(SimTo(EntryWord(e), r), CurrentMatchThreshold(wordStatuses, r))
      THEN FindAhead(wordStatuses, r, EntryWord(e), r + 1)
      ELSE -1

\* The successor of the e-th word confirms the reference word after k
NextConfirmsSkip(e, k) ==
  /\ HasNextWord(e)
  /\ HasNormalized(wordStatuses, k + 1)
  /\ SimGE(SimTo(NextWord(e), k + 1), RequiredConfirm(wordStatuses, lastRun[e].at, k))

SkipCommitted(e, k) ==
  /\ lastRun[e].kind = "skip"
  /\ lastRun[e].target = k
  /\ CursorAfter(e) = k + 1
  /\ StatusAt(k) = "correct"

\* The e-th word ended the run: nothing consumed, nothing changed
Deferred(e) ==
  /\ IsDefer(lastRun[e].kind)
  /\ e = Len(lastRun)
  /\ currentWordIndex = lastRun[e].at
  /\ lastProcessedCountRef = lastRun[e].tok

\* The rule of the lookahead commit, over the words of the latest run;
\* commitsAtEnd tells whether a candidate with no reference word after it is
\* committed
LookaheadRule(commitsAtEnd) ==
  Ran =>
    \A e \in 1..Len(lastRun) :
      LET k == CandidateOf(e)
          noNext == ~HasAt(wordStatuses, k + 1)
      IN  k # -1 =>
            IF ~HasNextWord(e) THEN Deferred(e)
            ELSE IF NextConfirmsSkip(e, k) \/ (commitsAtEnd /\ noNext)
                 THEN SkipCommitted(e, k)
                 ELSE /\ lastRun[e].kind = "noise"
                      /\ CursorAfter(e) = lastRun[e].at

\* C23 as stated: a lookahead candidate k is committed when the next word
\* confirms the reference word after k or when k is the last reference
\* position; with no next word the engine defers.
C23_Original == LookaheadRule(TRUE)

\* C23 amended: a lookahead candidate k is committed only when the next word
\* confirms the reference word after k; when no reference word with a
\* non-empty normalized form follows k (k is the last reference position) the
\* candidate is not committed and the word is consumed as noise; with no next
\* word the engine defers.
C23_Amended == LookaheadRule(FALSE)

\* A word detected the last reference position, had a successor, and was
\* consumed without a commit
C23_Witness ==
  /\ Ran
  /\ \E e \in 1..Len(lastRun) :
       /\ CandidateOf(e) = N - 1
       /\ HasNextWord(e)
       /\ lastRun[e].kind = "noise"
       /\ StatusAt(N - 1) = "pending"

\* ---- C24 -------------------------------------------------------------
MatchOf(i) == matchedBy[i + 1]

\* The threshold a word had to meet to mark position i correct: the match
\* threshold of the cursor, the detection threshold of the lookahead (within
\* the ayah, or onto the first word of the next ayah), or that of the long jump
AppliedThreshold(i) ==
  LET m == MatchOf(i)
  IN  IF m.kind = "match" THEN CurrentMatchThreshold(wordStatuses, i)
      ELSE IF m.kind = "jump" THEN LONG_JUMP_DETECT_THRESHOLD
      ELSE IF /\ At(wordStatuses, m.at).isLastWord
              /\ i = m.at + 1
              /\ AyahOf(i) = AyahOf(m.at) + 1
           THEN SKIP_DETECT_THRESHOLD_NEXT_AYAH
           ELSE SKIP_DETECT_THRESHOLD_SAME_AYAH

CursorSplits(ws, cwi) ==
  /\ cwi >= 0 /\ cwi <= Len(ws)
  /\ \A i \in 0..(Len(ws) - 1) : (At(ws, i).status # "pending") <=> (i < cwi)

\* C25: in every reachable state 0 <= currentWordIndex <= N and a position is
\* not pending exactly when it is below the cursor; within an attempt (no
\* reset rebuilding the statuses) a status changes only in a run of the
\* matching effect that moves the cursor forward.
C25_CursorSplits ==
  /\ []CursorSplits(wordStatuses, currentWordIndex)
  /\ [][ (~ResetStep /\ wordStatuses' # wordStatuses) =>
           (MatchEffect /\ currentWordIndex' > currentWordIndex) ]_vars

\* After a run that skipped, the cursor is inside the reference
C25_Witness ==
  /\ Ran
  /\ currentWordIndex > 1 /\ currentWordIndex < N
  /\ \E i \in 0..(currentWordIndex - 2) : StatusAt(i) = "incorrect"
  /\ StatusAt(currentWordIndex - 1) = "correct"
  /\ StatusAt(currentWordIndex) = "pending"

\* ---- C26 -------------------------------------------------------------
\* The latest step of the effect ran the loop
RanLoop == Ran /\ lastRun[1].kind # "return"

\* C26: after a run of the loop (listening, cursor below N, new words in the
\* buffer) the loop went through every new word in order; a word was deferred
\* only if it was the last of the buffer, every word with a successor was
\* consumed, and so at most the last word is left unconsumed.
C26_AtMostOneLeft ==
  RanLoop =>
    LET n == Len(resolvedTimes)
    IN  /\ lastProcessedCountRef >= n - 1 /\ lastProcessedCountRef <= n
        /\ \A e \in 1..Len(lastRun) :
             /\ lastRun[e].tok = lastRun[1].tok + e - 1
             /\ IsDefer(lastRun[e].kind) => (lastRun[e].tok = n - 1 /\ e = Len(lastRun))
             /\ HasNextWord(e) =>
                  (~IsDefer(lastRun[e].kind) /\ lastRun[e].tok < lastProcessedCountRef)
        /\ LastEntry.tok = n - 1
        /\ lastProcessedCountRef = n - 1 <=> IsDefer(LastEntry.kind)

\* A run consumed a word and deferred the last one
C26_Witness ==
  /\ RanLoop
  /\ Len(lastRun) >= 2
  /\ IsDefer(LastEntry.kind)
  /\ lastProcessedCountRef = Len(resolvedTimes) - 1
  /\ currentWordIndex < N

\* ---- C27 -------------------------------------------------------------
\* While listening, the buffer holds exactly the normalized words of a
\* reference all of whose normalized forms are non-empty
PerfectRecitation ==
  /\ N > 0 /\ AllNonEmpty
  /\ isListening
  /\ UserWords(transcript) = RefNormalized

Completed == currentWordIndex = N /\ AllCorrect /\ allComplete

\* C27: once the buffer has grown, in any chunking, to exactly the normalized
\* words of such a reference, the cursor reaches N with every position
\* correct and completion reported (unless listening stops or the attempt is
\* reset first).
C27_PerfectCompletes == PerfectRecitation ~> (Completed \/ ~PerfectRecitation)

\* The three words of two ayahs arrived in more than one chunk (the first run
\* deferred), and the recitation is complete
C27_Witness ==
  /\ surah = SurahPair
  /\ UserWords(transcript) = RefNormalized
  /\ Completed
  /\ Ran /\ lastRun[1].tok > 0

\* ---- C28 -------------------------------------------------------------
\* C28: whenever the hook is to keep listening (shouldRestartRef) and the
\* recognizer is running, isListening is true.
C28_ListeningWhileRunning ==
  (shouldRestartRef /\ rec = "running") => isListening

\* ---- C29 -------------------------------------------------------------
\* C29: with the cursor at the end of a non-empty reference the page sets
\* userStopped and stops listening; from then on, until a reset, the hook does
\* not listen again, and no step changes a status, the cursor or the consumed
\* count.
C29_StaysStopped ==
  /\ [][ AutoStopEffect => (userStopped' /\ ~isListening' /\ ~shouldRestartRef') ]_vars
  /\ [][ (allComplete /\ userStopped /\ ~isListening /\ ~ResetStep) => ~isListening' ]_vars
  /\ [][ (allComplete /\ ~ResetStep) =>
           UNCHANGED <<wordStatuses, currentWordIndex, lastProcessedCountRef>> ]_vars

\* ---- C30 -------------------------------------------------------------
\* The permission error is recorded and startListening has not run since
Denied == error = "not-allowed" /\ ~shouldRestartRef

\* C30: onerror('not-allowed') records the error, sets isListening false and
\* shouldRestartRef false; from then on, until the next startListening, the
\* onend that follows schedules no timer, recognition.start() is not called
\* and isListening stays false.
C30_NoRestartAfterDenied ==
  /\ [][ OnError("not-allowed") => Denied' /\ ~isListening' ]_vars
  /\ [][ (Denied /\ OnEnd) => timers' = timers ]_vars
  /\ [][ (Denied /\ ~HandleVoiceToggle) =>
           (rec' # "starting" /\ ~isListening') ]_vars

====
